---- MODULE Spec2Model ----
(***************************************************************************)
(* A model of DeepVO's batch generator (src/src/Epoch.py) and of its       *)
(* single-sample variant (src/src/batcher.py).                             *)
(*                                                                         *)
(* Spec       an Epoch: construction (partition_sequences) and get_batch.  *)
(* SpecCalls  direct calls of Epoch.get_sample and of the two test_batch.  *)
(* SpecEuler  rotation_matrix_to_euler_angles on 3x3 matrices over         *)
(*            {-1, 0, 1}, angles counted in quarter turns.                 *)
(***************************************************************************)
EXTENDS Integers, Sequences, FiniteSets, Bags, TLC

\* Bounds of the model.
MaxFrames == 3      \* flow files per sequence directory: 0..MaxFrames
MaxWindow == 2      \* window_size: 1..MaxWindow
MaxStep == 2        \* step_size: 1..MaxStep
MaxBatch == 2       \* batch_size: 1..MaxBatch

SeqIds == {"00", "01"}

VARIABLES
    train_seq_nos,  \* self.train_seq_nos: list of sequence ids
    len_seq,        \* len(os.listdir(join(flowdir, seq_no))) per training sequence
    window_size,    \* self.window_size
    step_size,      \* self.step_size
    batch_size,     \* self.batch_size
    window_idxs,    \* self.window_idxs: list of (seq_no, (start, end))
    constructed,    \* __init__ has run partition_sequences
    served,         \* history: bag of the windows of every batch returned
    dropped,        \* history: bag of the windows popped by a get_batch that raised
    last,           \* the last call: its arguments and its outcome
    r,              \* SpecEuler: the matrix handed to rotation_matrix_to_euler_angles
    euler           \* SpecEuler: the outcome of the call

vars == <<train_seq_nos, len_seq, window_size, step_size, batch_size,
          window_idxs, constructed, served, dropped, last, r, euler>>

epochVars == <<train_seq_nos, len_seq, window_size, step_size, batch_size,
               window_idxs, constructed, served, dropped>>

Min(a, b) == IF a < b THEN a ELSE b

\* Python's range(start, stop, step) for step > 0, as a list.
RECURSIVE PyRange(_, _, _)
PyRange(start, stop, step) ==
    IF start >= stop THEN <<>>
    ELSE <<start>> \o PyRange(start + step, stop, step)

\* random.shuffle: every permutation of the list.
RECURSIVE PermsOf(_, _)
PermsOf(s, idx) ==
    IF idx = {} THEN {<<>>}
    ELSE UNION {{<<s[i]>> \o p : p \in PermsOf(s, idx \ {i})} : i \in idx}

shuffle(s) == PermsOf(s, 1..Len(s))

RECURSIVE BagOfSeq(_)
BagOfSeq(s) ==
    IF s = <<>> THEN EmptyBag
    ELSE SetToBag({Head(s)}) (+) BagOfSeq(Tail(s))

Range(s) == {s[i] : i \in 1..Len(s)}

Reverse(s) == [i \in 1..Len(s) |-> s[Len(s) + 1 - i]]

----------------------------------------------------------------------------
(* The environment of one call: at most one frame of one sequence is       *)
(* faulty. "missing": its .flo file cannot be opened; "badmagic": the file *)
(* does not start with PIEH; "badpose": the rotation block of its pose is  *)
(* not orthogonal.                                                         *)
NoFault == [seq |-> "", frame |-> 0, kind |-> "none"]

\* The faults within the frames 1..lens[s] of the sequences s.
FaultsIn(lens) ==
    {NoFault} \cup
    UNION {[seq : {s}, frame : 1..lens[s], kind : {"missing", "badmagic", "badpose"}] :
              s \in DOMAIN lens}

NoArg == <<"", <<0, 0>>>>

\* The record kept of a call (and of construction).
Call(op, raised, returned, x, y, pool_before, popped, arg, buff, env, n) ==
    [op |-> op, raised |-> raised, returned |-> returned, x |-> x, y |-> y,
     pool_before |-> pool_before, popped |-> popped, arg |-> arg,
     buff |-> buff, env |-> env, n |-> n]

NoCall == Call("none", "none", FALSE, <<>>, <<>>, <<>>, <<>>, NoArg, FALSE, "none", 0)

----------------------------------------------------------------------------
(* Rotation matrices. The matrices are the 3x3 matrices over {-1, 0, 1};   *)
(* r[i, j] of the code is m[i + 1][j + 1]. The orthogonal ones among them  *)
(* are the 48 signed permutation matrices, whose Euler angles are whole    *)
(* quarter turns: an angle is counted in quarter turns (1 = pi / 2).       *)
Matrices == [1..3 -> [1..3 -> {-1, 0, 1}]]

Identity == [i \in 1..3 |-> [j \in 1..3 |-> IF i = j THEN 1 ELSE 0]]

Transpose(m) == [i \in 1..3 |-> [j \in 1..3 |-> m[j][i]]]

Dot(a, b) == [i \in 1..3 |-> [j \in 1..3 |-> a[i][1] * b[1][j] + a[i][2] * b[2][j] + a[i][3] * b[3][j]]]

\* The square of np.linalg.norm (Frobenius) of a - b.
NormSquared(a, b) ==
    LET d(i, j) == (a[i][j] - b[i][j]) * (a[i][j] - b[i][j]) IN
    d(1, 1) + d(1, 2) + d(1, 3) + d(2, 1) + d(2, 2) + d(2, 3) + d(3, 1) + d(3, 2) + d(3, 3)

\* n < 1e-6: on integer matrices n * n is a natural number, below 1e-12 iff 0.
is_rotation_matrix(m) ==
    LET rt == Transpose(m)
        should_be_identity == Dot(rt, m)
    IN NormSquared(Identity, should_be_identity) = 0

\* math.atan2(b, a) in quarter turns, for (a, b) on an axis or at the origin.
\* pi and -pi (a negative zero b with a < 0) are the same angle, 2.
atan2(b, a) ==
    CASE a > 0 /\ b = 0 -> 0
      [] a = 0 /\ b > 0 -> 1
      [] a < 0 /\ b = 0 -> 2
      [] a = 0 /\ b < 0 -> -1
      [] a = 0 /\ b = 0 -> 0

\* math.sqrt of 0 or 1.
sqrt(v) == CHOOSE k \in 0..1 : k * k = v

NoEuler == [raised |-> "notcalled", value |-> <<0, 0, 0>>]

rotation_matrix_to_euler_angles(m) ==
    IF ~is_rotation_matrix(m) THEN [raised |-> "AssertionError", value |-> <<0, 0, 0>>]
    ELSE LET sy == sqrt(m[1][1] * m[1][1] + m[2][1] * m[2][1])
             singular == sy = 0
         IN
         IF ~singular
         THEN [raised |-> "none",
               value |-> <<atan2(m[3][2], m[3][3]), atan2(-m[3][1], sy), atan2(m[2][1], m[1][1])>>]
         ELSE [raised |-> "none",
               value |-> <<atan2(-m[2][3], m[2][2]), atan2(-m[3][1], sy), 0>>]

----------------------------------------------------------------------------
(* Arrays. A flow field is named by the file it was read from; a zero      *)
(* array is its own value. A pose is named by its frame and by whether its *)
(* rotation block is orthogonal.                                           *)
FlowArray(seq, frame_no) == [kind |-> "flow", seq |-> seq, frame |-> frame_no]

np_zeros == [kind |-> "zeros", seq |-> "", frame |-> 0]

Ok(v) == [raised |-> "none", value |-> v]

Raise(e) == [raised |-> e, value |-> <<>>]

\* open(name, 'rb') fails on a missing file; any magic but PIEH is rejected.
read_flow(seq, frame_no, fault) ==
    IF fault.seq = seq /\ fault.frame = frame_no /\ fault.kind = "missing"
    THEN Raise("IOError")
    ELSE IF fault.seq = seq /\ fault.frame = frame_no /\ fault.kind = "badmagic"
    THEN Raise("Exception")
    ELSE Ok(FlowArray(seq, frame_no))

\* [read_flow(join(seq_path, "{i}.flo")) for frame_no in frame_nos]
RECURSIVE read_flows(_, _, _)
read_flows(seq, frame_nos, fault) ==
    IF frame_nos = <<>> THEN Ok(<<>>)
    ELSE LET f == read_flow(seq, Head(frame_nos), fault) IN
         IF f.raised # "none" THEN Raise(f.raised)
         ELSE LET rest == read_flows(seq, Tail(frame_nos), fault) IN
              IF rest.raised # "none" THEN rest
              ELSE Ok(<<f.value>> \o rest.value)

\* odometry(datadir, seq, frames=frame_nos).poses: one pose per frame asked for.
odometry_poses(seq, frame_nos, fault) ==
    [i \in 1..Len(frame_nos) |->
        [seq |-> seq, frame |-> frame_nos[i],
         ok |-> ~(fault.seq = seq /\ fault.frame = frame_nos[i] /\ fault.kind = "badpose")]]

\* poses[0] raises IndexError on an empty list; inv(first_frame) . x for x in
\* poses[1:] has an orthogonal rotation block iff both factors have (at most
\* one pose of a call is faulty).
rectify_poses(poses) ==
    IF poses = <<>> THEN Raise("IndexError")
    ELSE Ok([i \in 1..(Len(poses) - 1) |->
                [seq |-> poses[i + 1].seq, frame |-> poses[i + 1].frame,
                 ok |-> poses[1].ok /\ poses[i + 1].ok]])

\* assert(is_rotation_matrix(r)) guards the conversion of the rotation block.
mat_to_pose_vector(pose) ==
    IF ~pose.ok THEN Raise("AssertionError")
    ELSE Ok([kind |-> "pose", seq |-> pose.seq, frame |-> pose.frame])

RECURSIVE pose_vectors(_)
pose_vectors(rectified) ==
    IF rectified = <<>> THEN Ok(<<>>)
    ELSE LET v == mat_to_pose_vector(Head(rectified)) IN
         IF v.raised # "none" THEN Raise(v.raised)
         ELSE LET rest == pose_vectors(Tail(rectified)) IN
              IF rest.raised # "none" THEN rest
              ELSE Ok(<<v.value>> \o rest.value)

process_poses(poses) ==
    LET rectified_poses == rectify_poses(poses) IN
    IF rectified_poses.raised # "none" THEN rectified_poses
    ELSE pose_vectors(rectified_poses.value)

\* numpy.vstack(tup) takes ONE positional argument, a sequence of arrays; it is
\* given here as the list of the actual positional arguments of the call.
np_vstack(args) ==
    IF Len(args) # 1 THEN Raise("TypeError")
    ELSE IF args[1] = <<>> THEN Raise("ValueError")
    ELSE Ok([kind |-> "vstack", parts |-> args[1]])

\* for i in missing_frames: y = np.vstack(y, np.zeros(6))
RECURSIVE pad_y(_, _)
pad_y(y, missing) ==
    IF missing = 0 THEN Ok(y)
    ELSE LET v == np_vstack(<<y, np_zeros>>) IN
         IF v.raised # "none" THEN v
         ELSE pad_y(v.value, missing - 1)

Sample(raised, x, y, buff) == [raised |-> raised, x |-> x, y |-> y, buff |-> buff]

\* Epoch.get_sample(window_idx) with self.window_size = ws.
get_sample(window_idx, ws, fault) ==
    LET seq == window_idx[1]
        window_bounds == window_idx[2]
        frame_nos == PyRange(window_bounds[1], window_bounds[2], 1)
        buff == Len(frame_nos) < ws
        missing_frames == IF buff THEN ws - Len(frame_nos) ELSE 0
        flows == read_flows(seq, frame_nos, fault)
    IN
    IF flows.raised # "none" THEN Sample(flows.raised, <<>>, <<>>, buff)
    ELSE IF buff /\ flows.value = <<>> THEN Sample("IndexError", <<>>, <<>>, buff)
    ELSE LET x == flows.value \o [i \in 1..missing_frames |-> np_zeros]
             raw_poses == odometry_poses(seq, frame_nos, fault)
             y == process_poses(raw_poses)
         IN
         IF y.raised # "none" THEN Sample(y.raised, <<>>, <<>>, buff)
         ELSE LET padded == pad_y(y.value, missing_frames) IN
              IF padded.raised # "none" THEN Sample(padded.raised, <<>>, <<>>, buff)
              ELSE Sample("none", x, padded.value, buff)

----------------------------------------------------------------------------
(* Epoch: construction.                                                    *)

\* Mutant: the stop of the range taken one too far.
window_starts_stop_late(n, ws, step) == PyRange(1, n - ws + 2, step)

\* range(1, len_seq - self.window_size + 1, self.step_size)
window_starts(n, ws, step) == PyRange(1, n - ws + 1, step)

\* Mutant: the end bounded by len_seq instead of len_seq + 1.
window_end_clipped(window_start, n, ws) == Min(window_start + ws + 1, n)

\* window_end = min(window_start + self.window_size + 1, len_seq + 1)
window_end(window_start, n, ws) == Min(window_start + ws + 1, n + 1)

\* The windows of one sequence, in the order they are appended.
windows_of(seq_no, n, ws, step) ==
    LET starts == window_starts(n, ws, step) IN
    [i \in 1..Len(starts) |-> <<seq_no, <<starts[i], window_end(starts[i], n, ws)>>>>]

\* The list partition_sequences builds before it shuffles.
RECURSIVE partitioned(_, _, _, _)
partitioned(seq_nos, lens, ws, step) ==
    IF seq_nos = <<>> THEN <<>>
    ELSE windows_of(Head(seq_nos), lens[Head(seq_nos)], ws, step)
         \o partitioned(Tail(seq_nos), lens, ws, step)

\* Mutant: the completion test never true.
is_complete_never(pool) == FALSE

is_complete(pool) == ~(Len(pool) > 0)

\* The training lists: no sequence, one, or two distinct ones.
TrainLists == {<<>>, <<"00">>, <<"00", "01">>}

Init ==
    /\ train_seq_nos \in TrainLists
    /\ len_seq \in [Range(train_seq_nos) -> 0..MaxFrames]
    /\ window_size \in 1..MaxWindow
    /\ step_size \in 1..MaxStep
    /\ batch_size \in 1..MaxBatch
    /\ window_idxs = <<>>
    /\ constructed = FALSE
    /\ served = EmptyBag
    /\ dropped = EmptyBag
    /\ last = NoCall
    /\ r = Identity
    /\ euler = NoEuler

\* __init__: self.partition_sequences(), which ends with random.shuffle.
partition_sequences ==
    /\ ~constructed
    /\ \E p \in shuffle(window_idxs \o partitioned(train_seq_nos, len_seq, window_size, step_size)) :
          /\ window_idxs' = p
          /\ last' = Call("__init__", "none", TRUE, <<>>, <<>>, <<>>, <<>>, NoArg, FALSE, "none", 0)
    /\ constructed' = TRUE
    /\ UNCHANGED <<train_seq_nos, len_seq, window_size, step_size, batch_size,
                   served, dropped, r, euler>>

----------------------------------------------------------------------------
(* Epoch.get_batch.                                                        *)

\* Mutant: the last item read but left in the list.
pop_keeps(pool) ==
    IF pool = <<>> THEN [raised |-> "IndexError", item |-> NoArg, rest |-> pool]
    ELSE [raised |-> "none", item |-> pool[Len(pool)], rest |-> pool]

\* list.pop(): the last item, removed; IndexError on an empty list.
pop(pool) ==
    IF pool = <<>> THEN [raised |-> "IndexError", item |-> NoArg, rest |-> pool]
    ELSE [raised |-> "none", item |-> pool[Len(pool)], rest |-> SubSeq(pool, 1, Len(pool) - 1)]

Loop(raised, pool, x, y, popped, buff) ==
    [raised |-> raised, pool |-> pool, x |-> x, y |-> y, popped |-> popped, buff |-> buff]

\* Mutant: the sample built from the last window before it is popped, so a
\* failing window stays in the pool.
get_batch_body_build_first(st, ws, fault) ==
    IF is_complete(st.pool) THEN st
    ELSE LET s == get_sample(st.pool[Len(st.pool)], ws, fault) IN
         IF s.raised # "none"
         THEN Loop(s.raised, st.pool, st.x, st.y, st.popped, st.buff \/ s.buff)
         ELSE LET p == pop(st.pool) IN
              Loop("none", p.rest, Append(st.x, s.x), Append(st.y, s.y),
                   Append(st.popped, p.item), st.buff \/ s.buff)

\* One pass of the body of `for sample in range(self.batch_size)`.
get_batch_body(st, ws, fault) ==
    IF is_complete(st.pool) THEN st
    ELSE LET p == pop(st.pool) IN
         IF p.raised # "none" THEN Loop(p.raised, p.rest, st.x, st.y, st.popped, st.buff)
         ELSE LET s == get_sample(p.item, ws, fault) IN
              IF s.raised # "none"
              THEN Loop(s.raised, p.rest, st.x, st.y, Append(st.popped, p.item),
                        st.buff \/ s.buff)
              ELSE Loop("none", p.rest, Append(st.x, s.x), Append(st.y, s.y),
                        Append(st.popped, p.item), st.buff \/ s.buff)

\* The passes of the loop left to run; a raise ends the loop.
RECURSIVE get_batch_loop(_, _, _, _)
get_batch_loop(st, passes, ws, fault) ==
    IF passes = 0 \/ st.raised # "none" THEN st
    ELSE get_batch_loop(get_batch_body(st, ws, fault), passes - 1, ws, fault)

\* Mutant: one pass too many.
batch_passes_extra(bs) == bs + 1

\* The number of passes: range(self.batch_size).
batch_passes(bs) == bs

get_batch ==
    /\ constructed
    /\ \E fault \in FaultsIn(len_seq) :
       \E res \in {get_batch_loop(Loop("none", window_idxs, <<>>, <<>>, <<>>, FALSE),
                                  batch_passes(batch_size), window_size, fault)} :
          /\ window_idxs' = res.pool
          /\ IF res.raised = "none"
             THEN /\ served' = served (+) BagOfSeq(res.popped)
                  /\ dropped' = dropped
                  /\ last' = Call("get_batch", "none", TRUE, res.x, res.y, window_idxs,
                                  res.popped, NoArg, res.buff, "none", 0)
             ELSE /\ served' = served
                  /\ dropped' = dropped (+) BagOfSeq(res.popped)
                  /\ last' = Call("get_batch", res.raised, FALSE, <<>>, <<>>, window_idxs,
                                  res.popped, NoArg, res.buff, "none", 0)
    /\ UNCHANGED <<train_seq_nos, len_seq, window_size, step_size, batch_size,
                   constructed, r, euler>>

Next == partition_sequences \/ get_batch

Spec == Init /\ [][Next]_vars

----------------------------------------------------------------------------
(* Direct calls: Epoch.get_sample on any window, and the two test_batch.   *)

get_sample_call ==
    /\ constructed
    /\ \E seq \in SeqIds, start \in 0..(MaxFrames + 1) :
       \E end \in start..(MaxFrames + 2) :
       \E fault \in FaultsIn([q \in {seq} |-> MaxFrames]) :
       \E s \in {get_sample(<<seq, <<start, end>>>>, window_size, fault)} :
          last' = Call("get_sample", s.raised, s.raised = "none", s.x, s.y, <<>>, <<>>,
                       <<seq, <<start, end>>>>, s.buff, fault.kind, 0)
    /\ UNCHANGED <<epochVars, r, euler>>

\* odometry(basedir, seq): the whole sequence, frames 0..num_frames - 1;
\* poses and images are aligned and equal in number.
odometry(seq, num_frames, fault) ==
    LET frames == PyRange(0, num_frames, 1) IN
    [poses |-> odometry_poses(seq, frames, fault),
     rgb |-> [i \in 1..num_frames |-> [kind |-> "rgb", seq |-> seq, frame |-> frames[i]]]]

\* def get_stacked_rgbs(dataset, batch_frames): two required parameters; it is
\* given here as the list of the actual positional arguments of the call.
get_stacked_rgbs(args) ==
    IF Len(args) # 2 THEN Raise("TypeError")
    ELSE LET dataset == args[1]
             batch_frames == args[2]
             rgbs == dataset.rgb
         IN
         IF batch_frames = 0 THEN Raise("ZeroDivisionError")
         ELSE Ok([i \in 1..(Len(rgbs) - 1) |->
                     [kind |-> "dstack", frame1 |-> rgbs[i], frame2 |-> rgbs[i + 1]]])

\* batcher.process_poses(dataset): the poses are read from the dataset.
batcher_process_poses(dataset) == process_poses(dataset.poses)

\* test_batch(basedir, seq) of Epoch.py (module "Epoch") and of batcher.py.
test_batch(module, seq, num_frames, fault) ==
    LET dataset == odometry(seq, num_frames, fault)
        stacked == get_stacked_rgbs(<<dataset>>)
    IN
    IF stacked.raised # "none" THEN Sample(stacked.raised, <<>>, <<>>, FALSE)
    ELSE LET rows == np_vstack(<<stacked.value>>) IN
         IF rows.raised # "none" THEN Sample(rows.raised, <<>>, <<>>, FALSE)
         ELSE LET x == <<rows.value>>
                  y == IF module = "Epoch" THEN process_poses(dataset.poses)
                       ELSE batcher_process_poses(dataset)
              IN
              IF y.raised # "none" THEN Sample(y.raised, <<>>, <<>>, FALSE)
              ELSE Sample("none", x, y.value, FALSE)

test_batch_call(module) ==
    \E seq \in SeqIds, num_frames \in 0..(MaxFrames + 1) :
    \E fault \in {NoFault} \cup [seq : {seq}, frame : 0..MaxFrames, kind : {"badpose"}] :
    \E s \in {test_batch(module, seq, num_frames, fault)} :
       /\ last' = Call(module, s.raised, s.raised = "none", s.x, s.y, <<>>, <<>>,
                       <<seq, <<0, num_frames>>>>, FALSE, fault.kind, num_frames)
       /\ UNCHANGED <<epochVars, r, euler>>

Epoch_test_batch == test_batch_call("Epoch")

batcher_test_batch == test_batch_call("batcher")

InitCalls == Init /\ train_seq_nos = <<>>

NextCalls == partition_sequences \/ get_sample_call \/ Epoch_test_batch \/ batcher_test_batch

SpecCalls == InitCalls /\ [][NextCalls]_vars

----------------------------------------------------------------------------
(* rotation_matrix_to_euler_angles as a function of its argument.          *)

InitEuler ==
    /\ train_seq_nos = <<>>
    /\ len_seq = [s \in {} |-> 0]
    /\ window_size = 1
    /\ step_size = 1
    /\ batch_size = 1
    /\ window_idxs = <<>>
    /\ constructed = FALSE
    /\ served = EmptyBag
    /\ dropped = EmptyBag
    /\ last = NoCall
    /\ r \in Matrices
    /\ euler = NoEuler

rotation_matrix_to_euler_angles_call ==
    /\ euler' = rotation_matrix_to_euler_angles(r)
    /\ UNCHANGED <<epochVars, last, r>>

NextEuler == rotation_matrix_to_euler_angles_call

SpecEuler == InitEuler /\ [][NextEuler]_vars

----------------------------------------------------------------------------
(* The claims.                                                             *)

\* The windows partition_sequences produces for the training sequences.
AllWindows == BagOfSeq(partitioned(train_seq_nos, len_seq, window_size, step_size))

\* C1: in an epoch in which no get_batch has raised, the windows served so
\* far together with the windows still in the pool are exactly the windows
\* partition_sequences produced, no window has been served twice, and the pool
\* is empty (is_complete) exactly when every window has been served.
C1_EpochServesEachWindowOnce ==
    (constructed /\ dropped = EmptyBag) =>
        /\ served (+) BagOfSeq(window_idxs) = AllWindows
        /\ \A w \in BagToSet(served) : CopiesIn(w, served) = 1
        /\ (Len(window_idxs) = 0) <=> (served = AllWindows)

C1_Witness ==
    /\ constructed
    /\ dropped = EmptyBag
    /\ last.op = "get_batch"
    /\ Len(window_idxs) = 0
    /\ BagCardinality(served) >= 3
    /\ Len(train_seq_nos) = 2

\* C2: a get_batch that returns holds min(batch_size, size of the pool when
\* the call started) samples in x and in y, and the pool has shrunk by that
\* number.
C2_BatchLength ==
    (last.op = "get_batch" /\ last.returned) =>
        /\ Len(last.x) = Min(batch_size, Len(last.pool_before))
        /\ Len(last.y) = Min(batch_size, Len(last.pool_before))
        /\ Len(window_idxs) = Len(last.pool_before) - Len(last.x)

C2_Witness ==
    /\ last.op = "get_batch"
    /\ last.returned
    /\ Len(last.pool_before) = 1
    /\ batch_size = 2
    /\ Len(last.x) = 1

\* C3: get_batch on an empty pool does not raise, returns an empty batch and
\* leaves the pool empty; and once the pool is empty it is empty ever after.
C3_EmptyPoolEmptyBatch ==
    /\ [](last.op = "get_batch" /\ last.pool_before = <<>> =>
            /\ last.raised = "none"
            /\ last.returned
            /\ last.x = <<>>
            /\ last.y = <<>>
            /\ window_idxs = <<>>)
    /\ [][(constructed /\ Len(window_idxs) = 0) => Len(window_idxs') = 0]_vars

C3_Witness ==
    /\ last.op = "get_batch"
    /\ last.pool_before = <<>>
    /\ served # EmptyBag

\* The windows the partition is specified to emit for the training sequences.
ExpectedWindows ==
    {<<p[1], <<1 + p[2] * step_size,
               Min(1 + p[2] * step_size + window_size + 1, len_seq[p[1]] + 1)>>>> :
        p \in {q \in Range(train_seq_nos) \X (0..(MaxFrames + 1)) :
                  1 + q[2] * step_size <= len_seq[q[1]] - window_size}}

\* C4: right after construction the pool holds exactly one window for each
\* start 1, 1 + step_size, ... <= frame_count - window_size of each sequence,
\* ending at min(start + window_size + 1, frame_count + 1), and nothing else.
C4_PartitionWindows ==
    last.op = "__init__" =>
        /\ Range(window_idxs) = ExpectedWindows
        /\ Len(window_idxs) = Cardinality(ExpectedWindows)

C4_Witness ==
    /\ last.op = "__init__"
    /\ Len(train_seq_nos) = 2
    /\ Len(window_idxs) = 2
    /\ \E s \in Range(train_seq_nos) : len_seq[s] - window_size < 1

\* C5 (as claimed): every sample of a returned batch has window_size flow
\* frames in x and window_size pose vectors in y.
C5_SampleLengths ==
    (last.op = "get_batch" /\ last.returned) =>
        \A i \in 1..Len(last.x) :
            /\ Len(last.x[i]) = window_size
            /\ Len(last.y[i]) = window_size

\* C6 (as claimed): get_sample on a window of fewer than window_size frames,
\* all of them readable, returns x and y of window_size entries whose last
\* window_size - len(frame_nos) entries are zero arrays.
C6_TruncatedWindowPadded ==
    LET start == last.arg[2][1]
        end == last.arg[2][2]
        needed == window_size - (end - start)
    IN
    (last.op = "get_sample" /\ last.env = "none" /\ end > start /\ needed > 0) =>
        /\ last.raised = "none"
        /\ Len(last.x) = window_size
        /\ Len(last.y) = window_size
        /\ \A i \in (window_size - needed + 1)..window_size :
              last.x[i] = np_zeros /\ last.y[i] = np_zeros

\* C7 (as claimed): test_batch on a readable sequence with valid poses returns
\* x with one leading dimension of size 1 and y of num_frames - 1 pose vectors.
C7_TestBatchReturns ==
    (last.op \in {"Epoch", "batcher"} /\ last.env = "none" /\ last.n >= 2) =>
        /\ last.raised = "none"
        /\ Len(last.x) = 1
        /\ Len(last.y) = last.n - 1

\* cos and sin of an angle of q quarter turns.
cos(q) == CASE q % 4 = 0 -> 1 [] q % 4 = 2 -> -1 [] OTHER -> 0

sin(q) == CASE q % 4 = 1 -> 1 [] q % 4 = 3 -> -1 [] OTHER -> 0

\* The rotation matrix of the Euler angles (x, y, z): Rz(z) . Ry(y) . Rx(x).
EulerToMatrix(a) ==
    LET Rx == <<<<1, 0, 0>>, <<0, cos(a[1]), -sin(a[1])>>, <<0, sin(a[1]), cos(a[1])>>>>
        Ry == <<<<cos(a[2]), 0, sin(a[2])>>, <<0, 1, 0>>, <<-sin(a[2]), 0, cos(a[2])>>>>
        Rz == <<<<cos(a[3]), -sin(a[3]), 0>>, <<sin(a[3]), cos(a[3]), 0>>, <<0, 0, 1>>>>
    IN Dot(Rz, Dot(Ry, Rx))

\* C8 (as claimed): for every matrix the conversion accepts (orthogonal within
\* 1e-6), the matrix rebuilt from the returned angles is the matrix given.
C8_EulerRoundTrip ==
    euler.raised = "none" => EulerToMatrix(euler.value) = r

C10_FailedSampleLosesWindows ==
    /\ (last.op = "get_batch" /\ last.raised # "none") =>
          /\ ~last.returned
          /\ last.raised \in {"IOError", "Exception", "AssertionError"}
          /\ last.popped # <<>>
          /\ window_idxs \o Reverse(last.popped) = last.pool_before
          /\ BagIn(last.popped[Len(last.popped)], dropped)
    /\ \A w \in BagToSet(dropped) :
          /\ w \notin Range(window_idxs)
          /\ ~BagIn(w, served)

C10_Witness ==
    /\ last.op = "get_batch"
    /\ last.raised = "AssertionError"
    /\ Len(last.popped) = 2
    /\ served # EmptyBag

====
